---- MODULE Spec2Model ----
(***************************************************************************)
(* qcodes/utils/threading_utils.py: RespondingThread (a thread that keeps  *)
(* the value or the exception of its target until output() collects it)    *)
(* and thread_map (one RespondingThread per callable, all started, then     *)
(* collected in index order).                                               *)
(*                                                                          *)
(* Python values are records tagged by the field t, so that None, ints,     *)
(* exceptions, tuples, dicts and sequences can be compared with each other. *)
(***************************************************************************)
EXTENDS Integers, Sequences, FiniteSets, TLC

\* Bounds of the model.
MaxN == 2        \* longest callables / args / kwargs sequence given to thread_map
MaxCalls == 3    \* start() and output() calls issued on a handle shared by contexts
MaxOwnerCalls == 5   \* start() and output() calls issued on a handle by its one owner
NumCtx == 2      \* execution contexts that use the shared handle

VARIABLES
    callables,   \* thread_map's argument callables (a Python sequence)
    args,        \* thread_map's argument args: None or a sequence of tuples
    kwargs,      \* thread_map's argument kwargs: None or a sequence of dicts
    threads,     \* the RespondingThread objects, by index
    tm,          \* the frame of the running thread_map call
    ctx,         \* per execution context: the frame of its running output() call
    events,      \* log of the completed start()/output() calls, in completion order
    order,       \* the handles whose worker has ended, in the order they ended
    overlap      \* whether output() was ever called while another call of it ran

vars == <<callables, args, kwargs, threads, tm, ctx, events, order, overlap>>

Ctx == 1..NumCtx
Main == 1        \* the context that runs thread_map

----------------------------------------------------------------------------
\* Python values

None == [t |-> "None"]
PyInt(i) == [t |-> "int", v |-> i]
Tuple(i) == [t |-> "tuple", id |-> i]       \* the i-th argument tuple of the caller
EmptyTuple == Tuple(0)                       \* ()
Dict(i) == [t |-> "dict", id |-> i]         \* a dict object, by identity
List(s) == [t |-> "seq", items |-> s]

\* An exception object: its class, the result of bool() on it, and the callable
\* that raised it (its identity; 0 for exceptions raised by the interpreter).
Exc(cls, truthy, origin) ==
    [t |-> "exc", cls |-> cls, truthy |-> truthy, origin |-> origin]

RuntimeError == Exc("RuntimeError", TRUE, 0)
TypeError == Exc("TypeError", TRUE, 0)

\* isinstance(e, Exception): everything but the bare BaseException family
\* (SystemExit, KeyboardInterrupt, GeneratorExit).
IsException(e) == e.t = "exc" /\ e.cls # "BaseException"

\* bool(v), as the `if` statement evaluates it.
Truthy(v) ==
    CASE v.t = "None" -> FALSE
      [] v.t = "exc" -> v.truthy
      [] v.t = "int" -> v.v # 0
      [] OTHER -> TRUE

----------------------------------------------------------------------------
\* The callables of the caller. A callable is [id, op]: what it does when called.

Ops == {"ret", "none", "raise", "falsy", "base"}

Callable(i, op) == [t |-> "callable", id |-> i, op |-> op]

\* target(*args, **kwargs): the outcome of one call.
Call(target, a, k) ==
    CASE target.op = "ret" -> [kind |-> "return", val |-> PyInt(target.id)]
      [] target.op = "none" -> [kind |-> "return", val |-> None]
      [] target.op = "raise" ->
            [kind |-> "raise", val |-> Exc("Exception", TRUE, target.id)]
      [] target.op = "falsy" ->
            [kind |-> "raise", val |-> Exc("Exception", FALSE, target.id)]
      [] target.op = "base" ->
            [kind |-> "raise", val |-> Exc("BaseException", TRUE, target.id)]

----------------------------------------------------------------------------
\* RespondingThread

\* __init__: fresh is the identity of the dict created when kwargs is None.
\* status, invoked and uncaught are the state of the underlying Thread: whether
\* it was started / has ended, how often run() called the target, and the
\* exception that left run() uncaught.
RespondingThread(target, a, k, fresh) ==
    [_target |-> target,
     _args |-> a,
     _kwargs |-> IF k = None THEN Dict(fresh) ELSE k,
     _exception |-> None,
     _output |-> None,
     status |-> "initial",
     invoked |-> 0,
     uncaught |-> None]

\* run with the failure stored in both slots.
runStoresBoth(self) ==
    LET r == Call(self._target, self._args, self._kwargs)
        called == [self EXCEPT !.invoked = @ + 1, !.status = "finished"]
    IN  IF r.kind = "return"
        THEN [called EXCEPT !._output = r.val]
        ELSE IF IsException(r.val)
             THEN [called EXCEPT !._exception = r.val, !._output = r.val]
             ELSE [called EXCEPT !.uncaught = r.val]

\* run with `except BaseException`: every failure is stored.
runCatchesAll(self) ==
    LET r == Call(self._target, self._args, self._kwargs)
        called == [self EXCEPT !.invoked = @ + 1, !.status = "finished"]
    IN  IF r.kind = "return"
        THEN [called EXCEPT !._output = r.val]
        ELSE [called EXCEPT !._exception = r.val]

\* run: the body of the worker, from the call of the target to the thread's end.
\* The target's outcome is stored and the thread ends in one step: a handle is
\* "running" while its target executes and "finished" once run() is over. A
\* failure that `except Exception` does not match leaves run() and ends the thread.
run(self) ==
    LET r == Call(self._target, self._args, self._kwargs)
        called == [self EXCEPT !.invoked = @ + 1, !.status = "finished"]
    IN  IF r.kind = "return"
        THEN [called EXCEPT !._output = r.val]
        ELSE IF IsException(r.val)
             THEN [called EXCEPT !._exception = r.val]
             ELSE [called EXCEPT !.uncaught = r.val]

\* Thread.start().
start(self) == [self EXCEPT !.status = "running"]

Handles == 1..Len(threads)

\* The frame of an output() call: its statement, its handle and timeout, the
\* local e, the result once it is done; called is the handle's status at the call.
IdleFrame ==
    [pc |-> "idle", h |-> 0, timeout |-> FALSE, called |-> "initial",
     e |-> None, res |-> None]

\* The log with one more completed call, made by context c: what was called
\* on which handle, how it ended, and the handle's status when it was called
\* and when it ended.
Log(c, op, h, kind, val) ==
    Append(events, [op |-> op, h |-> h, kind |-> kind, val |-> val,
                    timeout |-> IF op = "output" THEN ctx[c].timeout ELSE FALSE,
                    called |-> IF op = "output" THEN ctx[c].called
                               ELSE threads[h].status,
                    status |-> threads[h].status])

\* A worker writing the value of its target into the slot of every handle.
RunSharedSlots(h) ==
    /\ threads[h].status = "running"
    /\ threads' = [j \in DOMAIN threads |->
                      IF j = h THEN run(threads[h])
                      ELSE [threads[j] EXCEPT !._output = run(threads[h])._output]]
    /\ order' = Append(order, h)
    /\ UNCHANGED <<callables, args, kwargs, tm, ctx, events, overlap>>

\* The worker of handle h runs its target to the end.
Run(h) ==
    /\ threads[h].status = "running"
    /\ threads' = [threads EXCEPT ![h] = run(@)]
    /\ order' = Append(order, h)
    /\ UNCHANGED <<callables, args, kwargs, tm, ctx, events, overlap>>

\* Context c is in no call of output(): it made none, or its last one is done.
Free(c) == ctx[c].pc \in {"idle", "done"}

\* output(), statement by statement, in context c.
\* Entry: the call itself.
OutputCall(c, h, timeout) ==
    /\ Free(c)
    /\ ctx' = [ctx EXCEPT ![c] = [IdleFrame EXCEPT !.pc = "join", !.h = h,
                                                  !.timeout = timeout,
                                                  !.called = threads[h].status]]
    /\ overlap' = (overlap \/ \E d \in Ctx \ {c} : ~Free(d))

\* join() that does not wait: it returns at once on a started thread.
OutputJoinNoWait(c) ==
    LET h == ctx[c].h IN
    /\ ctx[c].pc = "join"
    /\ IF threads[h].status = "initial"
       THEN /\ ctx' = [ctx EXCEPT ![c].pc = "done",
                                  ![c].res = [kind |-> "raise", val |-> RuntimeError]]
            /\ events' = Log(c, "output", h, "raise", RuntimeError)
       ELSE /\ ctx' = [ctx EXCEPT ![c].pc = "check"]
            /\ UNCHANGED events
    /\ UNCHANGED <<callables, args, kwargs, threads, tm, order, overlap>>

\* join() without the check that the thread was started: it waits, or lets
\* its timeout elapse.
OutputJoinUnchecked(c) ==
    LET h == ctx[c].h IN
    /\ ctx[c].pc = "join"
    /\ threads[h].status = "finished" \/ ctx[c].timeout
    /\ ctx' = [ctx EXCEPT ![c].pc = "check"]
    /\ UNCHANGED <<callables, args, kwargs, threads, tm, events, order, overlap>>

\* join() that is woken only by a thread ending while it waits: on a thread
\* that had ended before the call it waits for ever.
OutputJoinMissesEnd(c) ==
    LET h == ctx[c].h IN
    /\ ctx[c].pc = "join"
    /\ IF threads[h].status = "initial"
       THEN /\ ctx' = [ctx EXCEPT ![c].pc = "done",
                                  ![c].res = [kind |-> "raise", val |-> RuntimeError]]
            /\ events' = Log(c, "output", h, "raise", RuntimeError)
       ELSE /\ \/ threads[h].status = "finished" /\ ctx[c].called = "running"
               \/ ctx[c].timeout
            /\ ctx' = [ctx EXCEPT ![c].pc = "check"]
            /\ UNCHANGED events
    /\ UNCHANGED <<callables, args, kwargs, threads, tm, order, overlap>>

\* self.join(timeout=timeout): raises RuntimeError on a thread that was never
\* started, returns when the thread has ended or the timeout has elapsed.
OutputJoin(c) ==
    LET h == ctx[c].h IN
    /\ ctx[c].pc = "join"
    /\ IF threads[h].status = "initial"
       THEN /\ ctx' = [ctx EXCEPT ![c].pc = "done",
                                  ![c].res = [kind |-> "raise", val |-> RuntimeError]]
            /\ events' = Log(c, "output", h, "raise", RuntimeError)
       ELSE /\ threads[h].status = "finished" \/ ctx[c].timeout
            /\ ctx' = [ctx EXCEPT ![c].pc = "check"]
            /\ UNCHANGED events
    /\ UNCHANGED <<callables, args, kwargs, threads, tm, order, overlap>>

\* if self._exception:
OutputCheck(c) ==
    /\ ctx[c].pc = "check"
    /\ ctx' = [ctx EXCEPT ![c].pc =
                  IF Truthy(threads[ctx[c].h]._exception) THEN "load" ELSE "return"]
    /\ UNCHANGED <<callables, args, kwargs, threads, tm, events, order, overlap>>

\* e = self._exception
OutputLoad(c) ==
    /\ ctx[c].pc = "load"
    /\ ctx' = [ctx EXCEPT ![c].pc = "clear", ![c].e = threads[ctx[c].h]._exception]
    /\ UNCHANGED <<callables, args, kwargs, threads, tm, events, order, overlap>>

\* output() without the statement that clears the stored failure.
OutputClearForgets(c) ==
    /\ ctx[c].pc = "clear"
    /\ ctx' = [ctx EXCEPT ![c].pc = "raise"]
    /\ UNCHANGED <<callables, args, kwargs, threads, tm, events, order, overlap>>

\* self._exception = None
OutputClear(c) ==
    /\ ctx[c].pc = "clear"
    /\ threads' = [threads EXCEPT ![ctx[c].h]._exception = None]
    /\ ctx' = [ctx EXCEPT ![c].pc = "raise"]
    /\ UNCHANGED <<callables, args, kwargs, tm, events, order, overlap>>

\* raise e (raising None is a TypeError)
OutputRaise(c) ==
    LET x == IF ctx[c].e = None THEN TypeError ELSE ctx[c].e IN
    /\ ctx[c].pc = "raise"
    /\ ctx' = [ctx EXCEPT ![c].pc = "done", ![c].res = [kind |-> "raise", val |-> x]]
    /\ events' = Log(c, "output", ctx[c].h, "raise", x)
    /\ UNCHANGED <<callables, args, kwargs, threads, tm, order, overlap>>

\* output() handing the value out once: the slot is emptied as it is returned.
OutputReturnClears(c) ==
    LET v == threads[ctx[c].h]._output IN
    /\ ctx[c].pc = "return"
    /\ ctx' = [ctx EXCEPT ![c].pc = "done", ![c].res = [kind |-> "return", val |-> v]]
    /\ events' = Log(c, "output", ctx[c].h, "return", v)
    /\ threads' = [threads EXCEPT ![ctx[c].h]._output = None]
    /\ UNCHANGED <<callables, args, kwargs, tm, order, overlap>>

\* return self._output
OutputReturn(c) ==
    LET v == threads[ctx[c].h]._output IN
    /\ ctx[c].pc = "return"
    /\ ctx' = [ctx EXCEPT ![c].pc = "done", ![c].res = [kind |-> "return", val |-> v]]
    /\ events' = Log(c, "output", ctx[c].h, "return", v)
    /\ UNCHANGED <<callables, args, kwargs, threads, tm, order, overlap>>

\* One statement of the output() call running in context c.
OutputStep(c) ==
    \/ OutputJoin(c)
    \/ OutputCheck(c)
    \/ OutputLoad(c)
    \/ OutputClear(c)
    \/ OutputRaise(c)
    \/ OutputReturn(c)

----------------------------------------------------------------------------
\* thread_map

Min(a, b) == IF a < b THEN a ELSE b

\* zip(callables, args, kwargs) stops at the shortest of the three.
Zip(cs, as, ks) ==
    [i \in 1..Min(Len(cs), Min(Len(as), Len(ks))) |-> <<cs[i], as[i], ks[i]>>]

\* the dict bound to empty_dict, one object for the whole call
empty_dict == Dict(0)

\* ((),) * len(callables)  and  (empty_dict,) * len(callables)
Repeat(x, n) == [i \in 1..n |-> x]

\* Lines 82-90: the defaults and the list of threads.
MapConstruct ==
    /\ tm.pc = "entry"
    /\ LET n == Len(callables.items)
           a == IF args = None THEN Repeat(EmptyTuple, n) ELSE args.items
           k == IF kwargs = None THEN Repeat(empty_dict, n) ELSE kwargs.items
           z == Zip(callables.items, a, k)
       IN  threads' = [i \in DOMAIN z |->
                          RespondingThread(z[i][1], z[i][2], z[i][3], -i)]
    /\ tm' = [tm EXCEPT !.pc = "start", !.i = 1]
    /\ UNCHANGED <<callables, args, kwargs, ctx, events, order, overlap>>

\* The start loop ending one thread early.
MapStartSkipsLast ==
    /\ tm.pc = "start"
    /\ IF tm.i < Len(threads)
       THEN /\ threads' = [threads EXCEPT ![tm.i] = start(@)]
            /\ tm' = [tm EXCEPT !.i = @ + 1]
       ELSE /\ tm' = [tm EXCEPT !.pc = "collect", !.i = 1]
            /\ UNCHANGED threads
    /\ UNCHANGED <<callables, args, kwargs, ctx, events, order, overlap>>

\* for t in threads: t.start()
MapStart ==
    /\ tm.pc = "start"
    /\ IF tm.i <= Len(threads)
       THEN /\ threads' = [threads EXCEPT ![tm.i] = start(@)]
            /\ tm' = [tm EXCEPT !.i = @ + 1]
       ELSE /\ tm' = [tm EXCEPT !.pc = "collect", !.i = 1]
            /\ UNCHANGED threads
    /\ UNCHANGED <<callables, args, kwargs, ctx, events, order, overlap>>

\* [t.output() for t in threads]: the next call of output(), or the return of
\* the finished list.
MapCollect ==
    /\ tm.pc = "collect"
    /\ ctx[Main].pc = "idle"
    /\ IF tm.i <= Len(threads)
       THEN /\ OutputCall(Main, tm.i, FALSE)
            /\ UNCHANGED tm
       ELSE /\ tm' = [tm EXCEPT !.pc = "returned"]
            /\ UNCHANGED <<ctx, overlap>>
    /\ UNCHANGED <<callables, args, kwargs, threads, events, order>>

\* The list built back to front: each value is put before the earlier ones.
MapCollectedPrepends ==
    /\ tm.pc = "collect"
    /\ ctx[Main].pc = "done"
    /\ tm' = IF ctx[Main].res.kind = "raise"
             THEN [tm EXCEPT !.pc = "raised", !.raised = ctx[Main].res.val]
             ELSE [tm EXCEPT !.i = @ + 1, !.result = <<ctx[Main].res.val>> \o @]
    /\ ctx' = [ctx EXCEPT ![Main] = IdleFrame]
    /\ UNCHANGED <<callables, args, kwargs, threads, events, order, overlap>>

\* The collection going on after a failure: the exception is kept and the
\* next handle is collected.
MapCollectedContinues ==
    /\ tm.pc = "collect"
    /\ ctx[Main].pc = "done"
    /\ tm' = IF ctx[Main].res.kind = "raise"
             THEN [tm EXCEPT !.i = @ + 1, !.raised = ctx[Main].res.val,
                             !.result = Append(@, None)]
             ELSE [tm EXCEPT !.i = @ + 1, !.result = Append(@, ctx[Main].res.val)]
    /\ ctx' = [ctx EXCEPT ![Main] = IdleFrame]
    /\ UNCHANGED <<callables, args, kwargs, threads, events, order, overlap>>

\* The failure leaving thread_map stops the workers that still run.
MapCollectedCancels ==
    /\ tm.pc = "collect"
    /\ ctx[Main].pc = "done"
    /\ IF ctx[Main].res.kind = "raise"
       THEN /\ tm' = [tm EXCEPT !.pc = "raised", !.raised = ctx[Main].res.val]
            /\ threads' = [h \in Handles |->
                              IF threads[h].status = "running"
                              THEN [threads[h] EXCEPT !.status = "finished"]
                              ELSE threads[h]]
       ELSE /\ tm' = [tm EXCEPT !.i = @ + 1, !.result = Append(@, ctx[Main].res.val)]
            /\ UNCHANGED threads
    /\ ctx' = [ctx EXCEPT ![Main] = IdleFrame]
    /\ UNCHANGED <<callables, args, kwargs, events, order, overlap>>

\* The call of output() came back: its value is appended to the list, its
\* exception leaves thread_map.
MapCollected ==
    /\ tm.pc = "collect"
    /\ ctx[Main].pc = "done"
    /\ tm' = IF ctx[Main].res.kind = "raise"
             THEN [tm EXCEPT !.pc = "raised", !.raised = ctx[Main].res.val]
             ELSE [tm EXCEPT !.i = @ + 1, !.result = Append(@, ctx[Main].res.val)]
    /\ ctx' = [ctx EXCEPT ![Main] = IdleFrame]
    /\ UNCHANGED <<callables, args, kwargs, threads, events, order, overlap>>

----------------------------------------------------------------------------
\* Specification of one thread_map call

Lens == 0..MaxN

CallableSeqs ==
    UNION {{[i \in 1..n |-> Callable(i, f[i])] : f \in [1..n -> Ops]} : n \in Lens}

ArgsOptions == {None} \union {List([i \in 1..n |-> Tuple(i)]) : n \in Lens}
KwargsOptions == {None} \union {List([i \in 1..n |-> Dict(i)]) : n \in Lens}

InitMap ==
    /\ callables \in {List(s) : s \in CallableSeqs}
    /\ args \in ArgsOptions
    /\ kwargs \in KwargsOptions
    /\ threads = <<>>
    /\ tm = [pc |-> "entry", i |-> 0, result |-> <<>>, raised |-> None]
    /\ ctx = [c \in Ctx |-> IdleFrame]
    /\ events = <<>>
    /\ order = <<>>
    /\ overlap = FALSE

NextMap ==
    \/ MapConstruct
    \/ MapStart
    \/ MapCollect
    \/ MapCollected
    \/ \E h \in Handles : Run(h)
    \/ OutputStep(Main)

Spec == InitMap /\ [][NextMap]_vars

\* The steps of the thread that called thread_map.
MainStep ==
    \/ MapConstruct
    \/ MapStart
    \/ MapCollect
    \/ MapCollected
    \/ OutputStep(Main)

\* Threads are scheduled preemptively: the calling thread and every started
\* worker keep getting processor time, and every target comes back.
Fairness ==
    /\ WF_vars(MainStep)
    /\ \A h \in 1..MaxN : WF_vars(h \in Handles /\ Run(h))

\* One thread_map call under fair scheduling.
SpecFair == InitMap /\ [][NextMap]_vars /\ Fairness

----------------------------------------------------------------------------
\* Specification of one RespondingThread used directly: contexts call start()
\* and output(timeout) on it in any order, output() calls of different
\* contexts interleaving statement by statement.

\* The calls issued so far: the completed ones and the output() calls under way.
Issued == Len(events) + Cardinality({c \in Ctx : ~Free(c)})

\* start() that starts the thread again once its worker has ended.
HandleStartAgain(c, limit) ==
    /\ Free(c)
    /\ Issued < limit
    /\ IF threads[1].status # "running"
       THEN /\ threads' = [threads EXCEPT ![1] = start(@)]
            /\ events' = Log(c, "start", 1, "return", None)
       ELSE /\ events' = Log(c, "start", 1, "raise", RuntimeError)
            /\ UNCHANGED threads
    /\ UNCHANGED <<callables, args, kwargs, tm, ctx, order, overlap>>

\* Context c calls start(): Thread.start() raises RuntimeError on a thread
\* that was started before.
HandleStart(c, limit) ==
    /\ Free(c)
    /\ Issued < limit
    /\ IF threads[1].status = "initial"
       THEN /\ threads' = [threads EXCEPT ![1] = start(@)]
            /\ events' = Log(c, "start", 1, "return", None)
       ELSE /\ events' = Log(c, "start", 1, "raise", RuntimeError)
            /\ UNCHANGED threads
    /\ UNCHANGED <<callables, args, kwargs, tm, ctx, order, overlap>>

\* Context c calls output(), with a timeout or without.
HandleOutput(c, limit) ==
    /\ Issued < limit
    /\ \E timeout \in BOOLEAN : OutputCall(c, 1, timeout)
    /\ UNCHANGED <<callables, args, kwargs, threads, tm, events, order>>

InitHandle ==
    /\ \E op \in Ops :
          /\ callables = List(<<Callable(1, op)>>)
          /\ threads = <<RespondingThread(Callable(1, op), EmptyTuple, None, -1)>>
    /\ args = None
    /\ kwargs = None
    /\ tm = [pc |-> "idle", i |-> 0, result |-> <<>>, raised |-> None]
    /\ ctx = [c \in Ctx |-> IdleFrame]
    /\ events = <<>>
    /\ order = <<>>
    /\ overlap = FALSE

HandleNext(c, limit) ==
    \/ HandleStart(c, limit)
    \/ HandleOutput(c, limit)
    \/ OutputStep(c)

NextHandle ==
    \/ Run(1)
    \/ \E c \in Ctx : HandleNext(c, MaxCalls)

\* Any number of contexts, their calls of output() overlapping.
SpecHandle == InitHandle /\ [][NextHandle]_vars

NextOwner ==
    \/ Run(1)
    \/ HandleNext(Main, MaxOwnerCalls)

\* One owner: the calls on the handle come one after the other.
SpecOwner == InitHandle /\ [][NextOwner]_vars

\* Either use of the module: one thread_map call, or one handle driven
\* directly.
InitAny == InitMap \/ InitHandle

NextAny ==
    \/ NextMap
    \/ tm.pc = "idle" /\ NextHandle

SpecAny == InitAny /\ [][NextAny]_vars

----------------------------------------------------------------------------
\* Vocabulary of the properties of a thread_map call

N == Len(callables.items)

\* args and kwargs, where given, are as long as callables.
MatchingLengths ==
    /\ args # None => Len(args.items) = N
    /\ kwargs # None => Len(kwargs.items) = N

\* What callables[i] does when called with its own arguments.
ArgsOf(i) == IF args = None THEN EmptyTuple ELSE args.items[i]
KwargsOf(i) == IF kwargs = None THEN empty_dict ELSE kwargs.items[i]
Outcome(i) == Call(callables.items[i], ArgsOf(i), KwargsOf(i))

Raisers == {i \in 1..N : Outcome(i).kind = "raise"}

\* The callables whose failure is an instance of Exception.
ExceptionRaisers == {i \in Raisers : IsException(Outcome(i).val)}

MapDone == tm.pc \in {"returned", "raised"}

\* The handles output() was called on, and the events of handle h.
Collected == {ctx[c].h : c \in {d \in Ctx : ctx[d].pc # "idle"}}
                \union {events[j].h : j \in {x \in DOMAIN events : events[x].op = "output"}}

Lowest(S) == CHOOSE i \in S : \A j \in S : i <= j

----------------------------------------------------------------------------
\* C1: when all N callables return normally and args / kwargs (where given)
\* have length N, thread_map never raises, the list it builds is at every
\* moment a prefix of the callables' return values in input order, and the
\* list it returns has exactly N elements, whatever order the workers end in.
C1_OrderedResults ==
    (MatchingLengths /\ Raisers = {}) =>
        /\ tm.pc # "raised"
        /\ Len(tm.result) <= N
        /\ \A i \in 1..Len(tm.result) : tm.result[i] = Outcome(i).val
        /\ tm.pc = "returned" => Len(tm.result) = N

\* A full-length batch with explicit args and kwargs returned although its
\* last worker ended first.
C1_Witness ==
    /\ tm.pc = "returned"
    /\ N = MaxN
    /\ args # None /\ kwargs # None
    /\ MatchingLengths /\ Raisers = {}
    /\ order[1] = N
    /\ Len(tm.result) = N

\* C2 (as claimed): if exactly one callable raises and all others return, a
\* finished thread_map has raised that very failure. Stated for failures that
\* are instances of Exception, the ones run() captures.
C2_SingleFailureRaised ==
    (/\ MatchingLengths
     /\ Cardinality(Raisers) = 1
     /\ Raisers = ExceptionRaisers
     /\ MapDone) =>
        /\ tm.pc = "raised"
        /\ tm.raised = Outcome(Lowest(Raisers)).val

\* C3 (as claimed): if two or more callables fail, a finished thread_map has
\* raised the failure of the lowest failing index, output() was called on no
\* handle of a higher index, and the failures of the higher indices stay
\* stored in their handles once their workers have ended. Stated for failures
\* that are instances of Exception.
C3_LowestFailureRaised ==
    (/\ MatchingLengths
     /\ Cardinality(Raisers) >= 2
     /\ Raisers = ExceptionRaisers
     /\ MapDone) =>
        LET k == Lowest(Raisers) IN
        /\ tm.pc = "raised"
        /\ tm.raised = Outcome(k).val
        /\ \A h \in Collected : h <= k
        /\ \A j \in Raisers :
              (j > k /\ threads[j].status = "finished") =>
                  threads[j]._exception = Outcome(j).val

\* C6 (as claimed): with args or kwargs of another length than callables,
\* no worker is ever started, no callable is ever called, and thread_map
\* does not return a list.
C6_MismatchFailsAtEntry ==
    ~MatchingLengths =>
        /\ \A h \in Handles : threads[h].status = "initial" /\ threads[h].invoked = 0
        /\ tm.pc # "returned"

\* C7: whenever output() has been called on some handle of the batch, every
\* handle of the batch has been started.
C7_AllStartedBeforeCollect ==
    Collected # {} => \A h \in Handles : threads[h].status # "initial"

\* The first output() call waits in join() while no worker of a full-length
\* batch has ended yet.
C7_Witness ==
    /\ N = MaxN /\ Len(threads) = N
    /\ ctx[Main].pc = "join" /\ ctx[Main].h = 1
    /\ \A h \in Handles : threads[h].status = "running"

----------------------------------------------------------------------------
\* Vocabulary of the properties of one handle

\* What the target of handle h does when the worker calls it.
HandleOutcome(h) == Call(threads[h]._target, threads[h]._args, threads[h]._kwargs)

\* The completed output() calls, in completion order, and those of them that
\* were made after the worker had ended.
Outputs == SelectSeq(events, LAMBDA e : e.op = "output")
LateOutputs == SelectSeq(events, LAMBDA e : e.op = "output" /\ e.called = "finished")

\* No output() call was made, or is under way, that began before the worker ended.
OnlyLateOutputs ==
    /\ Len(LateOutputs) = Len(Outputs)
    /\ \A c \in Ctx : ~Free(c) => ctx[c].called = "finished"

\* The completed output() calls on a started handle that raised.
RaisedOutputs ==
    {j \in DOMAIN events : /\ events[j].op = "output"
                           /\ events[j].kind = "raise"
                           /\ events[j].called # "initial"}

----------------------------------------------------------------------------
\* C4 (as claimed): on a handle whose target raised, of the output() calls
\* one owner makes after the worker ended the first raises the original
\* failure and clears it, and every later one returns None. Stated for
\* failures that are instances of Exception, and for an owner that called
\* output() only after the worker had ended.
C4_FirstRaisesThenNone ==
    (/\ HandleOutcome(1).kind = "raise"
     /\ IsException(HandleOutcome(1).val)
     /\ OnlyLateOutputs) =>
        /\ \A j \in DOMAIN LateOutputs :
              IF j = 1
              THEN /\ LateOutputs[j].kind = "raise"
                   /\ LateOutputs[j].val = HandleOutcome(1).val
              ELSE /\ LateOutputs[j].kind = "return"
                   /\ LateOutputs[j].val = None
        /\ Len(LateOutputs) >= 1 => threads[1]._exception = None

\* C5: on a handle whose target returned v, every output() call made after
\* the worker ended returns v, and once the worker has ended the value slot
\* holds v and the failure slot is empty, whoever calls output() and however
\* often.
C5_ValueEveryTime ==
    HandleOutcome(1).kind = "return" =>
        /\ \A j \in DOMAIN LateOutputs :
              /\ LateOutputs[j].kind = "return"
              /\ LateOutputs[j].val = HandleOutcome(1).val
        /\ threads[1].status = "finished" =>
              /\ threads[1]._output = HandleOutcome(1).val
              /\ threads[1]._exception = None

\* Two output() calls made after the worker ended have both returned the
\* value 1 of the target.
C5_Witness ==
    /\ HandleOutcome(1) = [kind |-> "return", val |-> PyInt(1)]
    /\ Len(LateOutputs) >= 2
    /\ LateOutputs[1].val = PyInt(1)
    /\ LateOutputs[2].val = PyInt(1)

\* C8: a handle never holds a value and a failure at once, and holds neither
\* while it is not started or its worker is running.
C8_AtMostOneSlot ==
    \A h \in Handles :
        /\ ~(threads[h]._output # None /\ threads[h]._exception # None)
        /\ threads[h].status \in {"initial", "running"} =>
              (threads[h]._output = None /\ threads[h]._exception = None)

\* The worker has ended with a stored failure, after an output() call with a
\* timeout came back while the worker was still running.
C8_Witness ==
    /\ threads[1].status = "finished"
    /\ threads[1]._exception # None
    /\ \E j \in DOMAIN events :
          /\ events[j].op = "output"
          /\ events[j].timeout
          /\ events[j].status = "running"

\* C9 (as claimed): over every interleaving of output() calls on a started
\* handle, at most one of them raises, and what is raised is the failure of
\* the target.
C9_AtMostOnceAlways ==
    /\ Cardinality(RaisedOutputs) <= 1
    /\ \A j \in RaisedOutputs :
          /\ HandleOutcome(1).kind = "raise"
          /\ events[j].val = HandleOutcome(1).val

\* C9 (amended): as long as no output() call began while another one was
\* running, at most one output() call on a started handle raises, and what
\* is raised is the failure of the target.
C9_AtMostOnceSequential ==
    ~overlap => C9_AtMostOnceAlways

\* Two contexts called output() one after the other: the call of the first
\* raised the failure of the target, the call of the second returned None.
C9_Witness ==
    /\ ~overlap
    /\ Len(LateOutputs) = 2
    /\ LateOutputs[1].kind = "raise"
    /\ LateOutputs[1].val = HandleOutcome(1).val
    /\ LateOutputs[2].kind = "return"
    /\ LateOutputs[2].val = None
    /\ ctx[1].pc = "done" /\ ctx[1].res = [kind |-> "raise", val |-> HandleOutcome(1).val]
    /\ ctx[2].pc = "done" /\ ctx[2].res = [kind |-> "return", val |-> None]

\* A step in which the worker of handle h ends.
WorkerEnds(h) == threads[h].status = "running" /\ threads'[h].status = "finished"

\* C10 (as claimed): whatever the target raises, the worker stores it as the
\* handle's failure and nothing leaves run() uncaught.
C10_EveryFailureCaptured ==
    [][\A h \in Handles :
          (WorkerEnds(h) /\ HandleOutcome(h).kind = "raise") =>
              /\ threads'[h]._exception = HandleOutcome(h).val
              /\ threads'[h].uncaught = None]_vars

\* C10 (amended): a failure that is an instance of Exception is stored as
\* the handle's failure and nothing leaves run() uncaught; any other failure
\* leaves run() uncaught and both slots of the handle stay empty.
C10_ExceptionsCaptured ==
    [][\A h \in Handles :
          (WorkerEnds(h) /\ HandleOutcome(h).kind = "raise") =>
              IF IsException(HandleOutcome(h).val)
              THEN /\ threads'[h]._exception = HandleOutcome(h).val
                   /\ threads'[h].uncaught = None
              ELSE /\ threads'[h]._exception = None
                   /\ threads'[h]._output = None
                   /\ threads'[h].uncaught = HandleOutcome(h).val]_vars

\* Both workers of a batch have ended: the first holds the Exception its
\* target raised, the failure of the second left run() uncaught.
C10_Witness ==
    /\ Len(threads) = 2
    /\ threads[1].status = "finished"
    /\ threads[1]._exception = Exc("Exception", TRUE, 1)
    /\ threads[2].status = "finished"
    /\ threads[2].uncaught = Exc("BaseException", TRUE, 2)

----------------------------------------------------------------------------
\* The completed output() calls that began before the worker had ended.
EarlyOutputs == SelectSeq(events, LAMBDA e : e.op = "output" /\ e.called # "finished")

\* No output() call that began before the worker ended has raised, and none
\* is still under way.
EarlyOutputsReturned ==
    /\ \A j \in DOMAIN EarlyOutputs :
          EarlyOutputs[j].called = "initial" \/ EarlyOutputs[j].kind = "return"
    /\ \A c \in Ctx : ~Free(c) => ctx[c].called = "finished"

\* C11 (as claimed): once the worker has ended with a failure, the first
\* output() call made afterwards raises that failure, also when earlier calls
\* with a timeout came back empty-handed. Stated for failures that are
\* instances of Exception.
C11_FailureNeverSwallowed ==
    (/\ HandleOutcome(1).kind = "raise"
     /\ IsException(HandleOutcome(1).val)
     /\ EarlyOutputsReturned
     /\ Len(LateOutputs) >= 1) =>
        /\ LateOutputs[1].kind = "raise"
        /\ LateOutputs[1].val = HandleOutcome(1).val

\* An output() call under way in context c has left join().
PastJoin(c) == ctx[c].pc \in {"check", "load", "clear", "raise", "return"}

\* C12: an output() call without timeout on a started handle is past its
\* join(), and comes back, only when the worker has ended.
C12_NoTimeoutWaits ==
    /\ \A c \in Ctx :
          (PastJoin(c) /\ ~ctx[c].timeout) => threads[ctx[c].h].status = "finished"
    /\ \A j \in DOMAIN events :
          (/\ events[j].op = "output"
           /\ ~events[j].timeout
           /\ events[j].called # "initial") => events[j].status = "finished"

\* An output() call without timeout that was made while the worker was
\* running has come back with the value of the target.
C12_Witness ==
    \E j \in DOMAIN events :
        /\ events[j].op = "output"
        /\ ~events[j].timeout
        /\ events[j].called = "running"
        /\ events[j].status = "finished"
        /\ events[j].kind = "return"
        /\ events[j].val = PyInt(1)

\* The completed output() calls that came back while the worker was running.
TimedOut == SelectSeq(events, LAMBDA e : e.op = "output" /\ e.status = "running")

\* C13 (as claimed): an output() call that comes back while the worker is
\* still running returns None and leaves both slots empty and the worker
\* running; after such calls the outcome is still delivered by the calls made
\* once the worker has ended: the value is returned by each, the failure is
\* raised by the first and only by it. Stated for failures that are instances
\* of Exception.
C13_TimeoutThenDelivered ==
    (/\ Len(TimedOut) >= 1
     /\ EarlyOutputsReturned
     /\ HandleOutcome(1).kind = "raise" => IsException(HandleOutcome(1).val)) =>
        /\ \A j \in DOMAIN TimedOut :
              /\ TimedOut[j].timeout
              /\ TimedOut[j].kind = "return"
              /\ TimedOut[j].val = None
        /\ threads[1].status = "running" =>
              (threads[1]._output = None /\ threads[1]._exception = None)
        /\ \A j \in DOMAIN LateOutputs :
              IF HandleOutcome(1).kind = "return"
              THEN /\ LateOutputs[j].kind = "return"
                   /\ LateOutputs[j].val = HandleOutcome(1).val
              ELSE IF j = 1
                   THEN /\ LateOutputs[j].kind = "raise"
                        /\ LateOutputs[j].val = HandleOutcome(1).val
                   ELSE LateOutputs[j].kind = "return"

----------------------------------------------------------------------------
\* C14: thread_map collects in index order whatever order the workers end
\* in: the j-th output() call to come back is the one on handle j, every call
\* before the last one returned normally, output() is called on a handle only
\* after all handles before it were collected normally, and when a failure
\* has left thread_map the workers up to the failing index have all ended.
C14_IndexOrder ==
    /\ \A j \in DOMAIN events :
          /\ events[j].op = "output"
          /\ events[j].h = j
          /\ j < Len(events) => events[j].kind = "return"
    /\ \A h \in Collected :
          \A j \in 1..(h - 1) : j <= Len(events) /\ events[j].kind = "return"
    /\ tm.pc = "raised" =>
          /\ Len(events) >= 1
          /\ events[Len(events)].kind = "raise"
          /\ tm.raised = events[Len(events)].val
          /\ \A j \in 1..Len(events) : threads[j].status = "finished"

\* The failure of the last callable has left thread_map although its worker
\* was the first to end.
C14_Witness ==
    /\ N = MaxN /\ N >= 2
    /\ tm.pc = "raised"
    /\ Len(events) = N
    /\ tm.raised = Outcome(N).val
    /\ order[1] = N

----------------------------------------------------------------------------
\* The index whose failure left thread_map: the last handle collected.
FailedIndex == Len(events)

\* The worker of handle h has ended and its outcome sits in its value slot or
\* in its failure slot.
OutcomeStored(h) ==
    /\ threads[h].status = "finished"
    /\ threads[h].uncaught = None
    /\ IF HandleOutcome(h).kind = "return"
       THEN threads[h]._output = HandleOutcome(h).val /\ threads[h]._exception = None
       ELSE threads[h]._exception = HandleOutcome(h).val /\ threads[h]._output = None

\* The same, with a failure that is no Exception having left run() uncaught
\* and both slots empty.
OutcomeKept(h) ==
    IF HandleOutcome(h).kind = "raise" /\ ~IsException(HandleOutcome(h).val)
    THEN /\ threads[h].status = "finished"
         /\ threads[h].uncaught = HandleOutcome(h).val
         /\ threads[h]._output = None /\ threads[h]._exception = None
    ELSE OutcomeStored(h)

----------------------------------------------------------------------------
\* The tagged state of a handle t. A finished handle with an empty failure slot
\* is FailedRead if run() had stored a failure there, Succeeded otherwise.
Captured(t) ==
    LET r == Call(t._target, t._args, t._kwargs)
    IN  r.kind = "raise" /\ IsException(r.val)

Tag(t) ==
    IF t.status # "finished" THEN [tag |-> "Pending", val |-> None]
    ELSE IF t._exception # None THEN [tag |-> "FailedUnread", val |-> t._exception]
    ELSE IF Captured(t) THEN [tag |-> "FailedRead", val |-> None]
    ELSE [tag |-> "Succeeded", val |-> t._output]

\* C16: under a single owner the tag of the handle changes only from Pending
\* to Succeeded or to FailedUnread, in the step that ends the worker, and from
\* FailedUnread(e) to FailedRead, in the output() statement that clears the
\* slot on the way to raising e; a FailedRead handle has had its failure
\* raised or is about to raise it.
C16_TaggedMachine ==
    /\ [][LET a == Tag(threads[1])
              b == Tag(threads'[1])
          IN  a # b =>
                \/ /\ a.tag = "Pending"
                   /\ b.tag \in {"Succeeded", "FailedUnread"}
                   /\ WorkerEnds(1)
                   /\ order' = Append(order, 1)
                   /\ ctx' = ctx /\ events' = events
                \/ /\ a.tag = "FailedUnread"
                   /\ b.tag = "FailedRead"
                   /\ ctx[Main].pc = "clear"
                   /\ ctx'[Main].pc = "raise"
                   /\ ctx'[Main].e = a.val
                   /\ order' = order]_vars
    /\ [](Tag(threads[1]).tag = "FailedRead" =>
            \/ ctx[Main].pc = "raise" /\ ctx[Main].e = HandleOutcome(1).val
            \/ \E j \in DOMAIN events :
                  /\ events[j].op = "output"
                  /\ events[j].kind = "raise"
                  /\ events[j].val = HandleOutcome(1).val)

\* The failure was collected: the handle is FailedRead and a later output()
\* has returned None.
C16_Witness ==
    /\ Tag(threads[1]).tag = "FailedRead"
    /\ Cardinality(RaisedOutputs) = 1
    /\ Len(events) >= 1
    /\ events[Len(events)].op = "output"
    /\ events[Len(events)].kind = "return"
    /\ events[Len(events)].val = None

----------------------------------------------------------------------------
\* What handle j holds: its two slots and the arguments it captured.
Owned(t) == <<t._output, t._exception, t._target, t._args, t._kwargs>>

\* A step that changes what a handle holds is a step of that handle: its
\* worker ending, or the clearing statement of an output() call on it. The
\* captured arguments are never written.
SlotsFramed ==
    \A j \in Handles :
        /\ j \in DOMAIN threads'
        /\ threads'[j]._target = threads[j]._target
        /\ threads'[j]._args = threads[j]._args
        /\ threads'[j]._kwargs = threads[j]._kwargs
        /\ Owned(threads'[j]) # Owned(threads[j]) =>
              \/ WorkerEnds(j)
              \/ ctx[Main].h = j /\ ctx[Main].pc = "clear"

\* Each handle holds the arguments of its own index.
OwnArguments ==
    \A j \in Handles :
        /\ threads[j]._target = callables.items[j]
        /\ threads[j]._args = ArgsOf(j)
        /\ threads[j]._kwargs = KwargsOf(j)

\* C17 (as claimed): a step of one handle leaves the slots and arguments of
\* every other handle unchanged, and no two handles of one thread_map call
\* hold the same keyword-argument dict, also when kwargs was omitted.
C17_NothingShared ==
    /\ [][SlotsFramed]_vars
    /\ [](\A i \in Handles : \A j \in Handles :
              i # j => threads[i]._kwargs # threads[j]._kwargs)

\* C17 (amended): a step of one handle leaves the slots and arguments of
\* every other handle unchanged and no step writes a captured argument; each
\* handle holds the arguments of its own index; handles built from the
\* caller's kwargs hold distinct dicts, handles built without kwargs all
\* hold the one dict empty_dict.
C17_SlotsOwned ==
    /\ [][SlotsFramed]_vars
    /\ [](/\ OwnArguments
          /\ \A i \in Handles : \A j \in Handles :
                i # j =>
                   IF kwargs = None
                   THEN threads[i]._kwargs = empty_dict /\ threads[j]._kwargs = empty_dict
                   ELSE threads[i]._kwargs # threads[j]._kwargs)

\* Two handles built without kwargs hold the same dict and, their workers
\* over, different values.
C17_Witness ==
    /\ kwargs = None
    /\ Len(threads) = MaxN /\ MaxN >= 2
    /\ threads[1]._kwargs = threads[2]._kwargs
    /\ threads[1].status = "finished" /\ threads[2].status = "finished"
    /\ threads[1]._output = PyInt(1)
    /\ threads[2]._output = PyInt(2)

----------------------------------------------------------------------------
\* C18: a handle calls its target at most once, in the step that ends its
\* worker and in no start() or output() step, and an ended worker never runs
\* again; a thread_map call with matching lengths has built and started one
\* handle per callable when it returns or raises, each target called once by
\* the time its worker has ended and by the time thread_map returns.
C18_InvokedOnce ==
    /\ [](\A h \in Handles :
            /\ threads[h].invoked <= 1
            /\ threads[h].status = "finished" <=> threads[h].invoked = 1)
    /\ [][\A h \in Handles :
            /\ h \in DOMAIN threads'
            /\ threads[h].status = "finished" => threads'[h].status = "finished"
            /\ threads'[h].invoked # threads[h].invoked =>
                  /\ WorkerEnds(h)
                  /\ threads'[h].invoked = threads[h].invoked + 1
                  /\ ctx' = ctx /\ events' = events]_vars
    /\ []((tm.pc # "idle" /\ MatchingLengths /\ MapDone) =>
            /\ Len(threads) = N
            /\ \A h \in Handles :
                  /\ threads[h]._target = callables.items[h]
                  /\ threads[h].status # "initial"
                  /\ (tm.pc = "returned" \/ h <= FailedIndex) => threads[h].invoked = 1)

\* A handle used directly: started, its worker over, started again (which
\* raised) and collected, its target called once.
C18_Witness ==
    /\ tm.pc = "idle"
    /\ threads[1].invoked = 1
    /\ \E i \in DOMAIN events : \E j \in DOMAIN events :
          /\ events[i].op = "start" /\ events[i].called = "finished"
          /\ events[i].kind = "raise" /\ events[i].val = RuntimeError
          /\ events[j].op = "output" /\ events[j].called = "finished"

----------------------------------------------------------------------------
\* C19: under fair scheduling of the caller and of the workers, all targets
\* terminating, every thread_map call comes to its end: it returns its list
\* or raises a failure, and then stays ended.
C19_ThreadMapTerminates == <>[]MapDone

\* thread_map has returned the full list although the workers ended in the
\* reverse of the order in which they were joined.
C19_Witness ==
    /\ tm.pc = "returned"
    /\ N = MaxN /\ N >= 2
    /\ Len(tm.result) = N
    /\ \A j \in 1..N : order[j] = N + 1 - j

----------------------------------------------------------------------------
\* C20: output() on a handle that was never started does not block: its join
\* can run, and raises RuntimeError. It leaves the handle as constructed:
\* not started, its target not called, both slots unset; only start() starts it.
C20_OutputBeforeStart ==
    /\ [](threads[1].status = "initial" =>
            /\ threads[1].invoked = 0
            /\ threads[1]._output = None
            /\ threads[1]._exception = None
            /\ threads[1].uncaught = None
            /\ \A c \in Ctx : ~Free(c) => (ctx[c].pc = "join" /\ ENABLED OutputJoin(c))
            /\ \A j \in DOMAIN events :
                  /\ events[j].op = "output"
                  /\ events[j].kind = "raise"
                  /\ events[j].val = RuntimeError)
    /\ [][threads[1].status = "initial" =>
            /\ \A c \in Ctx :
                  (ctx[c].pc = "join" /\ ctx'[c].pc # "join") =>
                      /\ ctx'[c].pc = "done"
                      /\ ctx'[c].res = [kind |-> "raise", val |-> RuntimeError]
                      /\ threads' = threads
            /\ threads' # threads =>
                  /\ threads' = <<start(threads[1])>>
                  /\ ctx' = ctx
                  /\ Len(events') = Len(events) + 1
                  /\ events'[Len(events')].op = "start"]_vars

\* Two output() calls, one of them with a timeout, have raised RuntimeError
\* on the handle, which is still not started.
C20_Witness ==
    /\ threads[1].status = "initial"
    /\ Len(events) >= 2
    /\ \E i \in DOMAIN events : events[i].op = "output" /\ events[i].timeout
    /\ \E i \in DOMAIN events : events[i].op = "output" /\ ~events[i].timeout
    /\ \A i \in DOMAIN events : events[i].kind = "raise" /\ events[i].val = RuntimeError

====
